---- MODULE Spec2Model ----
(***************************************************************************)
(* Model of the security log analyzer: LogParser (src/src/log_parser.py)   *)
(* and AnomalyDetector (src/src/anomaly_detector.py).                      *)
(*                                                                         *)
(* A table (pandas DataFrame) is a sequence of rows; a row is a function   *)
(* from the column names present (cols) to values.                         *)
(*                                                                         *)
(* Encodings                                                               *)
(*   timestamp      minutes since an epoch that falls on a Monday 00:00,   *)
(*                  NaT for a null, Placeholder for the string 'unknown'   *)
(*                  that preprocess_for_ml's fillna puts in place of null  *)
(*   hour           0..23, NaT (NaN) or Placeholder                        *)
(*   anomaly_score  fixed point, in units of 0.5: the weights 1, 2, 1.5,   *)
(*                  1, 0.5 are 2, 4, 3, 2, 1 and the threshold 1.5 is 3    *)
(*   arg            what the entry point was called with: a table for    *)
(*                  analyze, the arguments and the environment for        *)
(*                  process_logs                                          *)
(*   mean + k*std   compared exactly over the rationals (pandas computes   *)
(*                  it in binary floating point)                           *)
(***************************************************************************)
EXTENDS Integers, Sequences, FiniteSets, TLC

VARIABLES
    arg,       \* what the entry point was called with
    df,        \* the table handed from stage to stage
    cols,      \* the column names df has
    pc,        \* the statement the run is at
    err,       \* the exception that ended the run, "none" when there is none
    fitted,    \* whether the detector's scaler / vectorizer / forest are fitted
    file,      \* parse_log_file: the lines of the input file
    lineno,    \* parse_log_file: lines read so far
    log_data,  \* parse_log_file: records appended so far
    out        \* process_logs: what the run has done outside itself

vars == <<arg, df, cols, pc, err, fitted, file, lineno, log_data, out>>

----------------------------------------------------------------------------
(* Bounds of the model                                                     *)

MaxRows == 13        \* rows of a table handed to analyze
MaxDominant == 3     \* rows of the dominant hour / window beyond one
MlCandidates == 2    \* rows the isolation forest may single out
MaxOutliers == 1     \* rows the isolation forest flags at once

----------------------------------------------------------------------------
(* Values                                                                  *)

NaT == -1            \* a null timestamp / NaN hour (errors='coerce')
Placeholder == -2    \* the literal 'unknown' written by fillna
MIN_ROWS == 10       \* "Need minimum data points"
MinutesPerHour == 60
HoursPerDay == 24
WindowMinutes == 5   \* time_window_minutes=5

\* anomaly_score is kept in units of 0.5
W_TIME == 2          \* += time_anomaly
W_ML == 4            \* += ml_anomaly * 2
W_FREQUENCY == 3     \* += frequency_anomaly * 1.5
W_SOURCE == 2        \* += source_anomaly
W_SECURITY == 1      \* += is_security_event * 0.5
SCORE_THRESHOLD == 3 \* anomaly_score >= 1.5

RECURSIVE SumOver(_, _)
SumOver(f, S) ==
    IF S = {} THEN 0
    ELSE LET x == CHOOSE y \in S : TRUE IN f[x] + SumOver(f, S \ {x})

\* df[col] = value / df.assign(col=value): the column is added or overwritten
SetCol(row, col, v) == (col :> v) @@ row

\* df.drop(columns=[col])
DropCol(row, col) == [c \in (DOMAIN row) \ {col} |-> row[c]]

\* groupby(col).size(): one count per value that occurs; null keys are left out
GroupSizes(T, col) ==
    LET keys == {T[i][col] : i \in DOMAIN T} \ {NaT}
    IN  [g \in keys |-> Cardinality({i \in DOMAIN T : T[i][col] = g})]

\* variant: the population standard deviation (ddof = 0),
\*   std^2 = (n*Q - S^2) / n^2
ExceedsThresholdPopulation(c, sizes, kNum, kDen) ==
    LET G == DOMAIN sizes
        n == Cardinality(G)
        S == SumOver(sizes, G)
        Q == SumOver([g \in G |-> sizes[g] * sizes[g]], G)
        lhs == n * c - S
    IN  /\ lhs > 0
        /\ kDen * kDen * lhs * lhs > kNum * kNum * (n * Q - S * S)

\* count > mean + (kNum/kDen) * std, where mean and std (pandas: the sample
\* standard deviation, ddof = 1) are taken over the counts of `sizes`.
\* With n groups, S their sum and Q the sum of their squares:
\*   mean = S/n,  std^2 = (n*Q - S^2) / (n*(n-1))
\* so, multiplied by n and squared (the left side must be positive):
\*   kDen^2 * (n*c - S)^2 * (n-1)  >  kNum^2 * n * (n*Q - S^2).
\* With one group std is NaN and every comparison with the threshold is False.
ExceedsThreshold(c, sizes, kNum, kDen) ==
    LET G == DOMAIN sizes
        n == Cardinality(G)
        S == SumOver(sizes, G)
        Q == SumOver([g \in G |-> sizes[g] * sizes[g]], G)
        lhs == n * c - S
    IN  /\ n >= 2
        /\ lhs > 0
        /\ kDen * kDen * lhs * lhs * (n - 1) > kNum * kNum * n * (n * Q - S * S)

\* the keys whose count exceeds the threshold
Anomalous(sizes, kNum, kDen) ==
    {g \in DOMAIN sizes : ExceedsThreshold(sizes[g], sizes, kNum, kDen)}

\* the result of one stage: the table, its columns, the exception raised
Ok(T, C) == [df |-> T, cols |-> C, err |-> "none"]
Raise(T, C, e) == [df |-> T, cols |-> C, err |-> e]

----------------------------------------------------------------------------
(* AnomalyDetector                                                         *)


\* variant: the 10-row floor is not checked
TimeAnomalyNoFloor(T, C) ==
    IF "hour" \notin C THEN Raise(T, C, "KeyError")
    ELSE LET anomalous_hours == Anomalous(GroupSizes(T, "hour"), 2, 1)
         IN  Ok([i \in DOMAIN T |->
                    SetCol(T[i], "time_anomaly", T[i].hour \in anomalous_hours)],
                C \cup {"time_anomaly"})

\* variant: 3 standard deviations instead of 2
TimeAnomalyThreeSigma(T, C) ==
    IF Len(T) < MIN_ROWS
    THEN Ok([i \in DOMAIN T |-> SetCol(T[i], "time_anomaly", FALSE)],
            C \cup {"time_anomaly"})
    ELSE IF "hour" \notin C THEN Raise(T, C, "KeyError")
    ELSE LET anomalous_hours == Anomalous(GroupSizes(T, "hour"), 3, 1)
         IN  Ok([i \in DOMAIN T |->
                    SetCol(T[i], "time_anomaly", T[i].hour \in anomalous_hours)],
                C \cup {"time_anomaly"})

\* variant: null hours are written as hour 0 before the rows are grouped
TimeAnomalyFillsHour(T, C) ==
    IF Len(T) < MIN_ROWS
    THEN Ok([i \in DOMAIN T |-> SetCol(T[i], "time_anomaly", FALSE)],
            C \cup {"time_anomaly"})
    ELSE IF "hour" \notin C THEN Raise(T, C, "KeyError")
    ELSE LET filled == [i \in DOMAIN T |->
                          SetCol(T[i], "hour", IF T[i].hour = NaT THEN 0 ELSE T[i].hour)]
             anomalous_hours == Anomalous(GroupSizes(filled, "hour"), 2, 1)
         IN  Ok([i \in DOMAIN T |->
                    SetCol(filled[i], "time_anomaly", filled[i].hour \in anomalous_hours)],
                C \cup {"time_anomaly"})

TimeAnomaly(T, C) ==
    IF Len(T) < MIN_ROWS
    THEN Ok([i \in DOMAIN T |-> SetCol(T[i], "time_anomaly", FALSE)],
            C \cup {"time_anomaly"})
    ELSE IF "hour" \notin C THEN Raise(T, C, "KeyError")
    ELSE LET anomalous_hours == Anomalous(GroupSizes(T, "hour"), 2, 1)
         IN  Ok([i \in DOMAIN T |->
                    SetCol(T[i], "time_anomaly", T[i].hour \in anomalous_hours)],
                C \cup {"time_anomaly"})

\* select_dtypes(include=[np.number]): hour and day_of_week are numeric unless
\* fillna has written the string 'unknown' into them (object dtype); strings
\* and booleans are not numeric
NumericCols(T, C) ==
    {c \in C \cap {"hour", "day_of_week"} :
        \A i \in DOMAIN T : T[i][c] # Placeholder}

\* the columns of the feature matrix X handed to the scaler and the forest
FeatureCols(T, C) ==
    IF Cardinality(NumericCols(T, C)) < 2
    THEN {"tfidf"} \cup (C \cap {"hour"})
    ELSE NumericCols(T, C)

HasValue(T, F, v) == \E i \in DOMAIN T : \E c \in F \cap DOMAIN T[i] : T[i][c] = v

\* the sets of rows the isolation forest may predict as -1
Predictions(T) ==
    {S \in SUBSET {i \in DOMAIN T : i <= MlCandidates} : Cardinality(S) <= MaxOutliers}

MlFlags(T, C, S) ==
    Ok([i \in DOMAIN T |-> SetCol(T[i], "ml_anomaly", i \in S)], C \cup {"ml_anomaly"})


\* variant: the floor is 5 rows instead of 10
MlAnomalyFloorFive(T, C) ==
    IF Len(T) < 5
    THEN {MlFlags(T, C, {})}
    ELSE IF Cardinality(NumericCols(T, C)) < 2 /\ "message" \notin C
    THEN {MlFlags(T, C, {})}
    ELSE {MlFlags(T, C, S) : S \in Predictions(T)}

\* every result detect_ml_anomalies can have on table T
MlAnomaly(T, C) ==
    IF Len(T) < MIN_ROWS
    THEN {MlFlags(T, C, {})}
    ELSE IF Cardinality(NumericCols(T, C)) < 2 /\ "message" \notin C
    THEN {MlFlags(T, C, {})}
    ELSE LET F == FeatureCols(T, C)
         IN  IF HasValue(T, F, Placeholder)
             \* scaler.fit_transform: could not convert string to float
             THEN {Raise(T, C, "ValueError")}
             ELSE IF HasValue(T, F, NaT)
             \* isolation_forest.fit: input contains NaN, unless the
             \* installed estimator accepts missing values
             THEN {Raise(T, C, "ValueError")} \cup {MlFlags(T, C, S) : S \in Predictions(T)}
             ELSE {MlFlags(T, C, S) : S \in Predictions(T)}

\* whether fit() was reached on some estimator of the detector
MlFits(T, C) ==
    /\ Len(T) >= MIN_ROWS
    /\ ~(Cardinality(NumericCols(T, C)) < 2 /\ "message" \notin C)

\* pd.to_datetime(errors='coerce') on a column that is not datetime64
ToDatetime(v) == IF v = Placeholder THEN NaT ELSE v

\* df.dropna(subset=['timestamp'])
DropNa(T) == SelectSeq(T, LAMBDA r : r.timestamp # NaT)

\* df.sort_values('timestamp'): rows in ascending order of timestamp; rows with
\* equal timestamps keep their order (insertion sort)
RECURSIVE Insert(_, _)
Insert(r, T) ==
    IF T = <<>> THEN <<r>>
    ELSE IF Head(T).timestamp <= r.timestamp
         THEN <<Head(T)>> \o Insert(r, Tail(T))
         ELSE <<r>> \o T

RECURSIVE SortValues(_)
SortValues(T) ==
    IF T = <<>> THEN <<>>
    ELSE Insert(T[Len(T)], SortValues(SubSeq(T, 1, Len(T) - 1)))

\* dt.floor('5min')
Window(ts) == (ts \div WindowMinutes) * WindowMinutes

\* df['timestamp'].diff().dt.total_seconds().fillna(0)
TimeDiff(T, i) == IF i = 1 THEN 0 ELSE (T[i].timestamp - T[i - 1].timestamp) * 60

\* variant: rows without a timestamp are kept and form a window of their own
FrequencyAnomalyKeepsNulls(T, C) ==
    IF "timestamp" \notin C \/ Len(T) < MIN_ROWS
    THEN Ok([i \in DOMAIN T |-> SetCol(T[i], "frequency_anomaly", FALSE)],
            C \cup {"frequency_anomaly"})
    ELSE LET sorted == SortValues(T)
             win == [i \in DOMAIN sorted |->
                       SetCol(SetCol(sorted[i], "time_diff", TimeDiff(sorted, i)),
                              "window", Window(sorted[i].timestamp))]
             anomalous_windows == Anomalous(GroupSizes(win, "window"), 3, 1)
         IN  Ok([i \in DOMAIN win |->
                   DropCol(SetCol(win[i], "frequency_anomaly",
                                  win[i].window \in anomalous_windows),
                           "window")],
                (C \cup {"time_diff", "frequency_anomaly"}) \ {"window"})

\* variant: within an anomalous window only the rows that repeat the
\* timestamp of the row before them (time_diff 0) are flagged
FrequencyAnomalyBurstOnly(T, C) ==
    IF "timestamp" \notin C \/ Len(T) < MIN_ROWS
    THEN Ok([i \in DOMAIN T |-> SetCol(T[i], "frequency_anomaly", FALSE)],
            C \cup {"frequency_anomaly"})
    ELSE LET conv == [i \in DOMAIN T |->
                        SetCol(T[i], "timestamp", ToDatetime(T[i].timestamp))]
             kept == DropNa(conv)
         IN  IF Len(kept) < MIN_ROWS
             THEN Ok([i \in DOMAIN kept |-> SetCol(kept[i], "frequency_anomaly", FALSE)],
                     C \cup {"frequency_anomaly"})
             ELSE LET sorted == SortValues(kept)
                      win == [i \in DOMAIN sorted |->
                                SetCol(SetCol(sorted[i], "time_diff", TimeDiff(sorted, i)),
                                       "window", Window(sorted[i].timestamp))]
                      anomalous_windows == Anomalous(GroupSizes(win, "window"), 3, 1)
                  IN  Ok([i \in DOMAIN win |->
                            DropCol(SetCol(win[i], "frequency_anomaly",
                                           /\ win[i].window \in anomalous_windows
                                           /\ win[i].time_diff = 0),
                                    "window")],
                         (C \cup {"time_diff", "frequency_anomaly"}) \ {"window"})

FrequencyAnomaly(T, C) ==
    IF "timestamp" \notin C \/ Len(T) < MIN_ROWS
    THEN Ok([i \in DOMAIN T |-> SetCol(T[i], "frequency_anomaly", FALSE)],
            C \cup {"frequency_anomaly"})
    ELSE LET conv == [i \in DOMAIN T |->
                        SetCol(T[i], "timestamp", ToDatetime(T[i].timestamp))]
             kept == DropNa(conv)
         IN  IF Len(kept) < MIN_ROWS
             THEN Ok([i \in DOMAIN kept |-> SetCol(kept[i], "frequency_anomaly", FALSE)],
                     C \cup {"frequency_anomaly"})
             ELSE LET sorted == SortValues(kept)
                      win == [i \in DOMAIN sorted |->
                                SetCol(SetCol(sorted[i], "time_diff", TimeDiff(sorted, i)),
                                       "window", Window(sorted[i].timestamp))]
                      anomalous_windows == Anomalous(GroupSizes(win, "window"), 3, 1)
                  IN  Ok([i \in DOMAIN win |->
                            DropCol(SetCol(win[i], "frequency_anomaly",
                                           win[i].window \in anomalous_windows),
                                    "window")],
                         (C \cup {"time_diff", "frequency_anomaly"}) \ {"window"})


\* variant: 3 standard deviations instead of 2.5
SourceAnomalyThreeSigma(T, C) ==
    IF "source" \notin C \/ Len(T) < MIN_ROWS
    THEN Ok([i \in DOMAIN T |-> SetCol(T[i], "source_anomaly", FALSE)],
            C \cup {"source_anomaly"})
    ELSE LET suspicious_sources == Anomalous(GroupSizes(T, "source"), 3, 1)
         IN  Ok([i \in DOMAIN T |->
                    SetCol(T[i], "source_anomaly", T[i].source \in suspicious_sources)],
                C \cup {"source_anomaly"})

SourceAnomaly(T, C) ==
    IF "source" \notin C \/ Len(T) < MIN_ROWS
    THEN Ok([i \in DOMAIN T |-> SetCol(T[i], "source_anomaly", FALSE)],
            C \cup {"source_anomaly"})
    ELSE LET suspicious_sources == Anomalous(GroupSizes(T, "source"), 5, 2)
         IN  Ok([i \in DOMAIN T |->
                    SetCol(T[i], "source_anomaly", T[i].source \in suspicious_sources)],
                C \cup {"source_anomaly"})


\* variant: the flag is read inverted
AsIntInverted(b) == IF b THEN 0 ELSE 1

\* astype(int)
AsInt(b) == IF b THEN 1 ELSE 0


\* variant: the term is subtracted
TermSubtracted(row, C, col, w) == IF col \in C THEN 0 - AsInt(row[col]) * w ELSE 0

Term(row, C, col, w) == IF col \in C THEN AsInt(row[col]) * w ELSE 0


\* variant: ML anomalies are not weighted double
AnomalyScoreMlUnweighted(row, C) ==
    0 + Term(row, C, "time_anomaly", W_TIME)
      + Term(row, C, "ml_anomaly", W_TIME)
      + Term(row, C, "frequency_anomaly", W_FREQUENCY)
      + Term(row, C, "source_anomaly", W_SOURCE)
      + Term(row, C, "is_security_event", W_SECURITY)

\* variant: frequency anomalies weigh as much as time anomalies
AnomalyScoreFrequencyUnweighted(row, C) ==
    0 + Term(row, C, "time_anomaly", W_TIME)
      + Term(row, C, "ml_anomaly", W_ML)
      + Term(row, C, "frequency_anomaly", W_TIME)
      + Term(row, C, "source_anomaly", W_SOURCE)
      + Term(row, C, "is_security_event", W_SECURITY)

AnomalyScore(row, C) ==
    0 + Term(row, C, "time_anomaly", W_TIME)
      + Term(row, C, "ml_anomaly", W_ML)
      + Term(row, C, "frequency_anomaly", W_FREQUENCY)
      + Term(row, C, "source_anomaly", W_SOURCE)
      + Term(row, C, "is_security_event", W_SECURITY)


\* variant: the threshold is exclusive
IsAnomalyStrict(score) == score > SCORE_THRESHOLD

IsAnomaly(score) == score >= SCORE_THRESHOLD

CombineAnomalyScores(T, C) ==
    Ok([i \in DOMAIN T |->
           LET score == AnomalyScore(T[i], C)
           IN  SetCol(SetCol(T[i], "anomaly_score", score),
                      "is_anomaly", IsAnomaly(score))],
       C \cup {"anomaly_score", "is_anomaly"})

----------------------------------------------------------------------------
(* LogParser.extract_features and preprocess_for_ml, column by column      *)

\* df['timestamp'].dt.hour
HourOf(ts) == IF ts < 0 THEN ts ELSE (ts \div MinutesPerHour) % HoursPerDay

\* df['timestamp'].dt.dayofweek
DayOfWeek(ts) == IF ts < 0 THEN ts ELSE (ts \div (MinutesPerHour * HoursPerDay)) % 7

\* message.str.contains('failed|error|denied|...', case=False): of the two
\* messages the tables carry, the one with a keyword
IsSecurityEvent(msg) == msg = "Failed password"

----------------------------------------------------------------------------
(* The tables analyze is called on                                         *)

FeatureCols0 ==
    {"timestamp", "message", "source", "is_security_event", "hour", "day_of_week"}

\* One table per shape p.  Rows 1..p.d lie in one hour and window (the
\* latest), the next rows go round over p.k earlier ones, p.unit minutes
\* apart; the last p.nulls rows have no timestamp (p.nullv: NaT as left by
\* extract_features, Placeholder as left by preprocess_for_ml).  Rows 1..p.ds
\* have one source, the others go round over p.ks sources.  p.sec rows out of
\* every two carry a security keyword.  The columns p.missing are absent.
TimeGroup(i, p) == IF i <= p.d THEN p.k ELSE (i - p.d - 1) % p.k

Timestamp(i, p) ==
    IF i > p.n - p.nulls THEN p.nullv
    ELSE 10 * MinutesPerHour + TimeGroup(i, p) * p.unit

SourceOf(i, p) == IF i <= p.ds THEN 0 ELSE 1 + ((i - p.ds - 1) % p.ks)

MessageOf(i, p) ==
    IF p.sec = 2 \/ (p.sec = 1 /\ i % 2 = 1) THEN "Failed password" ELSE "session opened"

FullRow(i, p) ==
    [index |-> i,
     timestamp |-> Timestamp(i, p),
     message |-> MessageOf(i, p),
     source |-> SourceOf(i, p),
     is_security_event |-> IsSecurityEvent(MessageOf(i, p)),
     hour |-> HourOf(Timestamp(i, p)),
     day_of_week |-> DayOfWeek(Timestamp(i, p))]

FeatureTable(p) ==
    [i \in 1..p.n |->
        [c \in (DOMAIN FullRow(i, p)) \ p.missing |-> FullRow(i, p)[c]]]

MissingChoices ==
    {{}, {"hour"}, {"timestamp"}, {"source"}, {"is_security_event"},
     {"message", "hour", "day_of_week"}}

Shapes ==
    {p \in [n : 0..MaxRows, d : 0..(1 + MaxDominant), k : {1, 5, 10},
            unit : {WindowMinutes, MinutesPerHour},
            ds : {0, 2}, ks : {1, 8},
            nulls : 0..1, nullv : {NaT, Placeholder},
            sec : 0..2, missing : MissingChoices] :
        /\ p.d + p.nulls <= p.n
        /\ (p.nulls = 0 => p.nullv = NaT)
        /\ (p.ds = 0 <=> p.ks = 1)
        /\ (p.missing # {} => p.d = 2 /\ p.k = 5 /\ p.nulls = 0 /\ p.sec = 1
                              /\ p.unit = MinutesPerHour)}

----------------------------------------------------------------------------
(* AnomalyDetector.analyze, one action per stage                           *)

\* nothing exited, written back or reported
NoOutput == [exit |-> 0, written |-> FALSE, report |-> FALSE, returned |-> FALSE]

ParserIdle == /\ file = <<>> /\ lineno = 0 /\ log_data = <<>> /\ out = NoOutput

Init ==
    /\ \E p \in Shapes :
          /\ arg = FeatureTable(p)
          /\ df = arg
          /\ cols = FeatureCols0 \ p.missing
    /\ pc = "time"
    /\ err = "none"
    /\ fitted = FALSE
    /\ ParserIdle

\* variant: analyze goes on to fusion as soon as one detector has returned
StepToFusion(r, next) ==
    /\ df' = r.df
    /\ cols' = r.cols
    /\ err' = r.err
    /\ pc' = IF r.err # "none" THEN "raised"
             ELSE IF next = "done" THEN "done" ELSE "combine"

\* a stage returned r: go on to pc value `next`, or leave analyze on an exception
Step(r, next) ==
    /\ df' = r.df
    /\ cols' = r.cols
    /\ err' = r.err
    /\ pc' = IF r.err = "none" THEN next ELSE "raised"

detect_time_based_anomalies ==
    /\ pc = "time"
    /\ Step(TimeAnomaly(df, cols), "ml")
    /\ UNCHANGED <<arg, fitted, file, lineno, log_data, out>>

detect_ml_anomalies ==
    /\ pc = "ml"
    /\ \E r \in MlAnomaly(df, cols) : Step(r, "frequency")
    /\ fitted' = (fitted \/ MlFits(df, cols))
    /\ UNCHANGED <<arg, file, lineno, log_data, out>>

detect_frequency_anomalies ==
    /\ pc = "frequency"
    /\ Step(FrequencyAnomaly(df, cols), "source")
    /\ UNCHANGED <<arg, fitted, file, lineno, log_data, out>>

detect_source_anomalies ==
    /\ pc = "source"
    /\ Step(SourceAnomaly(df, cols), "combine")
    /\ UNCHANGED <<arg, fitted, file, lineno, log_data, out>>

combine_anomaly_scores ==
    /\ pc = "combine"
    /\ Step(CombineAnomalyScores(df, cols), "done")
    /\ UNCHANGED <<arg, fitted, file, lineno, log_data, out>>

Next ==
    \/ detect_time_based_anomalies
    \/ detect_ml_anomalies
    \/ detect_frequency_anomalies
    \/ detect_source_anomalies
    \/ combine_anomaly_scores

Spec == Init /\ [][Next]_vars

----------------------------------------------------------------------------
(* combine_anomaly_scores called on its own: any subset of the five signal *)
(* columns, any values in them                                             *)

MaxFusionRows == 2

SignalCols ==
    {"time_anomaly", "ml_anomaly", "frequency_anomaly", "source_anomaly",
     "is_security_event"}

InitFusion ==
    /\ \E C \in SUBSET SignalCols : \E n \in 0..MaxFusionRows :
          \E flags \in [1..n -> [C -> BOOLEAN]] :
             /\ arg = [i \in 1..n |-> SetCol(flags[i], "index", i)]
             /\ cols = C
    /\ df = arg
    /\ pc = "combine"
    /\ err = "none"
    /\ fitted = FALSE
    /\ ParserIdle

SpecFusion == InitFusion /\ [][combine_anomaly_scores]_vars

----------------------------------------------------------------------------
(* analyze called again and again on one AnomalyDetector                   *)

ReuseShapes ==
    {p \in Shapes :
        /\ p.n \in {MIN_ROWS - 1, MIN_ROWS, MIN_ROWS + 1}
        /\ p.d \in {0, 2} /\ p.k = 5 /\ p.unit = MinutesPerHour
        /\ p.ds = 0 /\ p.sec = 1
        /\ p.missing \in {{}, {"timestamp"}}}

InitReuse ==
    /\ \E p \in ReuseShapes :
          /\ arg = FeatureTable(p)
          /\ df = arg
          /\ cols = FeatureCols0 \ p.missing
    /\ pc = "time"
    /\ err = "none"
    /\ fitted = FALSE
    /\ ParserIdle

\* variant: every call is made on a detector built for it
AnalyzeOnNewDetector ==
    /\ pc \in {"done", "raised"}
    /\ \E p \in ReuseShapes :
          /\ arg' = FeatureTable(p)
          /\ df' = arg'
          /\ cols' = FeatureCols0 \ p.missing
    /\ pc' = "time"
    /\ err' = "none"
    /\ fitted' = FALSE
    /\ UNCHANGED <<file, lineno, log_data, out>>

\* detector.analyze(table) once more, after a call that returned or raised:
\* self.scaler, self.vectorizer and self.isolation_forest are the objects
\* made by __init__ and nothing resets them
analyze_again ==
    /\ pc \in {"done", "raised"}
    /\ \E p \in ReuseShapes :
          /\ arg' = FeatureTable(p)
          /\ df' = arg'
          /\ cols' = FeatureCols0 \ p.missing
    /\ pc' = "time"
    /\ err' = "none"
    /\ UNCHANGED <<fitted, file, lineno, log_data, out>>

NextReuse ==
    \/ detect_time_based_anomalies
    \/ detect_ml_anomalies
    \/ detect_frequency_anomalies
    \/ detect_source_anomalies
    \/ combine_anomaly_scores
    \/ analyze_again

SpecReuse == InitReuse /\ [][NextReuse]_vars

----------------------------------------------------------------------------
(* The three threshold detectors called on their own, on tables made of    *)
(* groups of given sizes: every row of a group has the group's hour (and   *)
(* so its window) and the group's source                                   *)

MaxGroups == 11      \* groups of a table
MaxGroupSize == 3    \* rows of a group

\* m[s] is the number of groups of s rows
GroupProfiles ==
    {m \in [1..MaxGroupSize -> 0..MaxGroups] :
        SumOver(m, 1..MaxGroupSize) \in 1..MaxGroups}

\* the group of each row: the groups of size s and above, numbered from j
RECURSIVE Expand(_, _, _)
Expand(m, s, j) ==
    IF s > MaxGroupSize THEN <<>>
    ELSE IF m[s] = 0 THEN Expand(m, s + 1, j)
    ELSE [i \in 1..s |-> j] \o Expand([m EXCEPT ![s] = @ - 1], s, j + 1)

GroupRow(i, g) ==
    [index |-> i,
     timestamp |-> g * MinutesPerHour,
     message |-> "session opened",
     source |-> g,
     is_security_event |-> IsSecurityEvent("session opened"),
     hour |-> HourOf(g * MinutesPerHour),
     day_of_week |-> DayOfWeek(g * MinutesPerHour)]

\* the table of profile m, followed by `nulls` rows without a timestamp
GroupTable(m, nulls) ==
    LET groups == Expand(m, 1, 1)
        n == Len(groups)
    IN  [i \in 1..(n + nulls) |->
            IF i <= n THEN GroupRow(i, groups[i])
            ELSE [GroupRow(i, 1) EXCEPT !.timestamp = NaT, !.hour = NaT,
                                        !.day_of_week = NaT]]

InitThreshold ==
    /\ \E m \in GroupProfiles : \E nulls \in 0..1 : arg = GroupTable(m, nulls)
    /\ df = arg
    /\ cols = FeatureCols0
    /\ pc \in {"time", "frequency", "source"}
    /\ err = "none"
    /\ fitted = FALSE
    /\ ParserIdle

NextThreshold ==
    \/ detect_time_based_anomalies
    \/ detect_frequency_anomalies
    \/ detect_source_anomalies

SpecThreshold == InitThreshold /\ [][NextThreshold]_vars

----------------------------------------------------------------------------
(* detect_source_anomalies called on its own, on tables of 200 rows: p.ds  *)
(* rows of one source, the others going round over p.ks sources           *)

MaxOthers == 20

ScenarioShapes ==
    {p \in [n : {200}, d : {0}, k : {1}, unit : {MinutesPerHour},
            ds : {20 * j : j \in 1..9}, ks : 1..MaxOthers,
            nulls : {0}, nullv : {NaT}, sec : {0}, missing : {{}}] : TRUE}

InitSource ==
    /\ \E p \in ScenarioShapes :
          /\ arg = FeatureTable(p)
          /\ cols = FeatureCols0
    /\ df = arg
    /\ pc = "source"
    /\ err = "none"
    /\ fitted = FALSE
    /\ ParserIdle

SpecSource == InitSource /\ [][detect_source_anomalies]_vars

----------------------------------------------------------------------------
(* LogParser: the four patterns and re.match                               *)
(*                                                                         *)
(* A line is a string; Char(s, i) is its i-th character.  Each pattern is  *)
(* a concatenation of quantified character classes, written as a sequence  *)
(* of items [cls, lo, hi, lazy] (hi = -1: unbounded), with the item ranges *)
(* of its capture groups.                                                  *)

Char(s, i) == SubSeq(s, i, i)

Digit == {"0", "1", "2", "3", "4", "5", "6", "7", "8", "9"}
Letter ==
    {"a", "b", "c", "d", "e", "f", "g", "h", "i", "j", "k", "l", "m", "n", "o",
     "p", "q", "r", "s", "t", "u", "v", "w", "x", "y", "z",
     "A", "B", "C", "D", "E", "F", "G", "H", "I", "J", "K", "L", "M", "N", "O",
     "P", "Q", "R", "S", "T", "U", "V", "W", "X", "Y", "Z"}
Punct == {"-", ":", ".", "/", "[", "]", "\"", "+", "=", "(", ")"}
WordChar == Letter \cup Digit \cup {"_"}          \* \w
SpaceChar == {" ", "\t"}                           \* \s
AnyChar == WordChar \cup SpaceChar \cup Punct      \* .  (a line holds no newline)
NonSpace == AnyChar \ SpaceChar                    \* \S

One(c) == [cls |-> c, lo |-> 1, hi |-> 1, lazy |-> FALSE]
Lit(ch) == One({ch})
Rep(c, a, b) == [cls |-> c, lo |-> a, hi |-> b, lazy |-> FALSE]
Plus(c) == [cls |-> c, lo |-> 1, hi |-> -1, lazy |-> FALSE]
Star(c) == [cls |-> c, lo |-> 0, hi |-> -1, lazy |-> FALSE]
LazyStar(c) == [cls |-> c, lo |-> 0, hi |-> -1, lazy |-> TRUE]

\* \d{4}-\d{2}-\d{2}\s\d{2}:\d{2}:\d{2}
IsoTimestamp ==
    <<Rep(Digit, 4, 4), Lit("-"), Rep(Digit, 2, 2), Lit("-"), Rep(Digit, 2, 2),
      One(SpaceChar), Rep(Digit, 2, 2), Lit(":"), Rep(Digit, 2, 2), Lit(":"),
      Rep(Digit, 2, 2)>>

\* \d{2}:\d{2}:\d{2}
Clock == <<Rep(Digit, 2, 2), Lit(":"), Rep(Digit, 2, 2), Lit(":"), Rep(Digit, 2, 2)>>

patterns ==
    [generic |->
        \* (\d{4}-\d{2}-\d{2}\s\d{2}:\d{2}:\d{2})\s+(\w+)\s+\[([^\]]+)\]\s+(.*)
        [items |-> IsoTimestamp \o
                   <<Plus(SpaceChar), Plus(WordChar), Plus(SpaceChar), Lit("["),
                     Plus(AnyChar \ {"]"}), Lit("]"), Plus(SpaceChar), Star(AnyChar)>>,
         groups |-> <<<<1, 11>>, <<13, 13>>, <<16, 16>>, <<19, 19>>>>],
     apache |->
        \* (\S+) (\S+) (\S+) \[([^:]+):(\d+:\d+:\d+) ([^\]]+)\] "(\S+) (.*?) (\S+)" (\d+) (\S+)
        [items |-> <<Plus(NonSpace), Lit(" "), Plus(NonSpace), Lit(" "), Plus(NonSpace),
                     Lit(" "), Lit("["), Plus(AnyChar \ {":"}), Lit(":"),
                     Plus(Digit), Lit(":"), Plus(Digit), Lit(":"), Plus(Digit),
                     Lit(" "), Plus(AnyChar \ {"]"}), Lit("]"), Lit(" "), Lit("\""),
                     Plus(NonSpace), Lit(" "), LazyStar(AnyChar), Lit(" "),
                     Plus(NonSpace), Lit("\""), Lit(" "), Plus(Digit), Lit(" "),
                     Plus(NonSpace)>>,
         groups |-> <<<<1, 1>>, <<3, 3>>, <<5, 5>>, <<8, 8>>, <<10, 14>>, <<16, 16>>,
                      <<20, 20>>, <<22, 22>>, <<24, 24>>, <<27, 27>>, <<29, 29>>>>],
     windows |->
        \* (\d{4}-\d{2}-\d{2}\s\d{2}:\d{2}:\d{2})\s+(\w+)\s+(\w+)\s+(.*)
        [items |-> IsoTimestamp \o
                   <<Plus(SpaceChar), Plus(WordChar), Plus(SpaceChar), Plus(WordChar),
                     Plus(SpaceChar), Star(AnyChar)>>,
         groups |-> <<<<1, 11>>, <<13, 13>>, <<15, 15>>, <<17, 17>>>>],
     ssh |->
        \* (\w{3}\s+\d{1,2}\s+\d{2}:\d{2}:\d{2}).*sshd\[\d+\]:\s+(.*)
        [items |-> <<Rep(WordChar, 3, 3), Plus(SpaceChar), Rep(Digit, 1, 2),
                     Plus(SpaceChar)>> \o Clock \o
                   <<Star(AnyChar), Lit("s"), Lit("s"), Lit("h"), Lit("d"), Lit("["),
                     Plus(Digit), Lit("]"), Lit(":"), Plus(SpaceChar), Star(AnyChar)>>,
         groups |-> <<<<1, 9>>, <<20, 20>>>>]]

\* the order in which self.patterns.items() yields the patterns
PatternOrder == <<"generic", "apache", "windows", "ssh">>

\* the characters from position pos on that lie in cls, at most cap of them
RunLength(line, pos, cls, cap) ==
    LET most == IF cap < Len(line) - pos THEN cap ELSE Len(line) - pos
    IN  CHOOSE n \in 0..most :
            /\ n = most \/ Char(line, pos + n + 1) \notin cls
            /\ \A j \in 1..n : Char(line, pos + j) \in cls

NoMatch == [ok |-> FALSE, ends |-> <<>>]

Largest(S) == CHOOSE n \in S : \A m \in S : m <= n
Smallest(S) == CHOOSE n \in S : \A m \in S : n <= m

\* The backtracking matcher: items k.. are matched from position pos (the
\* characters before pos are consumed).  A greedy item tries its longest run
\* first, a lazy one its shortest, and the first length under which the rest
\* of the pattern matches is kept: the largest, or the smallest, of the
\* lengths that let the rest match.  ends[j] is the position the j-th of
\* these items ends at.
RECURSIVE MatchFrom(_, _, _, _)
MatchFrom(items, line, k, pos) ==
    IF k > Len(items) THEN [ok |-> TRUE, ends |-> <<>>]
    ELSE LET it == items[k]
             run == RunLength(line, pos, it.cls, IF it.hi < 0 THEN Len(line) ELSE it.hi)
             tries == {[n |-> n, rest |-> MatchFrom(items, line, k + 1, pos + n)] :
                          n \in it.lo..run}
             fit == {t \in tries : t.rest.ok}
         IN  IF fit = {} THEN NoMatch
             ELSE LET n == IF it.lazy THEN Smallest({t.n : t \in fit})
                                      ELSE Largest({t.n : t \in fit})
                      kept == CHOOSE t \in fit : t.n = n
                  IN  [ok |-> TRUE, ends |-> <<pos + n>> \o kept.rest.ends]

\* re.match(pattern, line): the pattern is matched from the start of the line
\* and need not reach its end
ReMatch(pattern, line) == MatchFrom(pattern.items, line, 1, 0)

\* match.groups(): the text each group captured
Group(pattern, line, m, g) ==
    LET first == pattern.groups[g][1]
        last == pattern.groups[g][2]
        from == IF first = 1 THEN 0 ELSE m.ends[first - 1]
    IN  SubSeq(line, from + 1, m.ends[last])

\* re.search(items, text): the match at the leftmost position that has one
ReSearch(items, text) ==
    LET starts == {st \in 0..Len(text) : MatchFrom(items, text, 1, st).ok}
    IN  IF starts = {} THEN NoMatch
        ELSE MatchFrom(items, text, 1, Smallest(starts))

\* needle in text
RECURSIVE Literal(_)
Literal(word) == IF word = "" THEN <<>> ELSE <<Lit(Char(word, 1))>> \o Literal(SubSeq(word, 2, Len(word)))

\* variant: the lower-case spelling 'failed password' counts as the keyword
\* too
ContainsAnyCase(text, needle) ==
    \/ ReSearch(Literal(needle), text).ok
    \/ ReSearch(Literal("failed password"), text).ok

Contains(text, needle) == ReSearch(Literal(needle), text).ok

\* str.strip(): leading and trailing whitespace removed
RECURSIVE LStrip(_), RStrip(_)
LStrip(s) ==
    IF s # "" /\ Char(s, 1) \in SpaceChar THEN LStrip(SubSeq(s, 2, Len(s))) ELSE s
RStrip(s) ==
    IF s # "" /\ Char(s, Len(s)) \in SpaceChar THEN RStrip(SubSeq(s, 1, Len(s) - 1)) ELSE s
Strip(s) == RStrip(LStrip(s))

\* variant: apache is tried before generic
DetectApacheFirst(log_line) ==
    IF ReMatch(patterns["apache"], log_line).ok THEN "apache"
    ELSE IF ReMatch(patterns["generic"], log_line).ok THEN "generic"
    ELSE IF ReMatch(patterns["windows"], log_line).ok THEN "windows"
    ELSE IF ReMatch(patterns["ssh"], log_line).ok THEN "ssh"
    ELSE "unknown"

RECURSIVE DetectFrom(_, _)
DetectFrom(k, log_line) ==
    IF k > Len(PatternOrder) THEN "unknown"
    ELSE IF ReMatch(patterns[PatternOrder[k]], log_line).ok THEN PatternOrder[k]
    ELSE DetectFrom(k + 1, log_line)

detect_log_type(log_line) == DetectFrom(1, log_line)

\* datetime.now().strftime('%Y-%m-%d %H:%M:%S'), whatever the clock reads
Now == "<now>"

\* a cell of a column the record has no key for
NaN == "<NaN>"

\* "user (\S+)" and "from (\d+\.\d+\.\d+\.\d+)"
UserItems == Literal("user ") \o <<Plus(NonSpace)>>
FromItems ==
    Literal("from ") \o
    <<Plus(Digit), Lit("."), Plus(Digit), Lit("."), Plus(Digit), Lit("."), Plus(Digit)>>

UnknownRecord(line) ==
    [timestamp |-> Now, log_type |-> "unknown", severity |-> "INFO",
     message |-> line, source |-> "unknown"]

\* the record built from a line of type log_type whose pattern matched as m
ParsedRecord(log_type, line, m) ==
    LET g(n) == Group(patterns[log_type], line, m, n)
    IN  CASE log_type = "generic" ->
                [timestamp |-> g(1), log_type |-> log_type, severity |-> g(2),
                 source |-> g(3), message |-> g(4)]
          [] log_type = "apache" ->
                [timestamp |-> g(4) \o " " \o g(5), log_type |-> log_type,
                 severity |-> "INFO", source |-> g(1),
                 message |-> g(7) \o " " \o g(8) \o " " \o g(9) \o " " \o g(10),
                 status_code |-> g(10), request_path |-> g(8)]
          [] log_type = "windows" ->
                [timestamp |-> g(1), log_type |-> log_type, severity |-> g(2),
                 source |-> g(3), message |-> g(4)]
          [] log_type = "ssh" ->
                LET message == g(2)
                    is_failed == \/ Contains(message, "Failed password")
                                 \/ Contains(message, "Invalid user")
                    user_match == ReSearch(UserItems, message)
                    ip_match == ReSearch(FromItems, message)
                IN  [timestamp |-> g(1), log_type |-> log_type,
                     severity |-> IF is_failed THEN "WARNING" ELSE "INFO",
                     source |-> IF ip_match.ok
                                THEN SubSeq(message, ip_match.ends[5] + 1, ip_match.ends[12])
                                ELSE "unknown",
                     username |-> IF user_match.ok
                                  THEN SubSeq(message, user_match.ends[5] + 1,
                                              user_match.ends[6])
                                  ELSE "unknown",
                     message |-> message,
                     failed_attempt |-> is_failed]

\* variant: a line of unknown type is skipped
RecordsForSkipUnknown(raw) ==
    LET line == Strip(raw)
        log_type == detect_log_type(line)
    IN  IF log_type = "unknown" THEN <<>>
        ELSE <<ParsedRecord(log_type, line, ReMatch(patterns[log_type], line))>>

\* the body of the loop over the lines: the records one line appends
RecordsFor(raw) ==
    LET line == Strip(raw)
        log_type == detect_log_type(line)
    IN  IF log_type = "unknown" THEN <<UnknownRecord(line)>>
        ELSE LET match == ReMatch(patterns[log_type], line)
             IN  IF match.ok THEN <<ParsedRecord(log_type, line, match)>> ELSE <<>>

\* pd.DataFrame(log_data): one row per record, one column per key that some
\* record has, NaN where a record lacks the key
Keys(records) == UNION {DOMAIN records[i] : i \in DOMAIN records}

DataFrame(records) ==
    [i \in DOMAIN records |->
        [c \in Keys(records) \cup {"index"} |->
            IF c = "index" THEN i
            ELSE IF c \in DOMAIN records[i] THEN records[i][c] ELSE NaN]]

----------------------------------------------------------------------------
(* parse_log_file                                                          *)

MaxLines == 2        \* lines of the input file

SampleLines ==
    {"2024-01-15 10:23:45 ERROR [auth] Failed login",
     "  2024-01-15 10:23:45 WARN [fw] drop  ",
     "2024-01-15 10:23:45 GET [10/Oct/2023:13:55:36 +0000] \"GET /a HTTP/1.1\" 200 5",
     "10.0.0.1 - - [10/Oct/2023:13:55:36 +0000] \"GET /a HTTP/1.1\" 200 512",
     "10.0.0.1 - - [10/Oct/2023:13:55:36 +0000] \"GET /a HTTP/1.1\" 200 512 \"-\" \"curl\"",
     "2024-01-15 10:23:45 INFO Security Logon ok",
     "Jan 12 10:00:01 host sshd[123]: Failed password for user admin from 10.0.0.5",
     "Jan  2 10:00:01 host sshd[7]: Accepted publickey",
     "Jan 12 10:00:01 h sshd[9]: Invalid user bob from gw.example port 22",
     "Jan 12 10:00:01 h sshd[9]: failed password for root from 10.0.0.7x",
     "Jan 12 10:00:01 h sshd[9]: user  from 1.2.3 from 10.1.2.33 user eve",
     "Jan 12 10:00:01 [x:1:2:3 z] \"GET sshd[1]: /a\" 200 5",
     "kernel: random text",
     " \t "}

\* what the loop body appends for each line the file can hold
Appended == [raw \in SampleLines |-> RecordsFor(raw)]

InitParser ==
    /\ \E n \in 0..MaxLines : file \in [1..n -> SampleLines]
    /\ lineno = 0
    /\ log_data = <<>>
    /\ pc = "parsing"
    /\ err = "none"
    /\ arg = <<>>
    /\ df = <<>>
    /\ cols = {}
    /\ fitted = FALSE
    /\ out = NoOutput

\* for line in f: ... log_data.append(...)
ReadLine ==
    /\ pc = "parsing"
    /\ lineno < Len(file)
    /\ log_data' = log_data \o Appended[file[lineno + 1]]
    /\ lineno' = lineno + 1
    /\ UNCHANGED <<arg, df, cols, pc, err, fitted, file, out>>

\* return pd.DataFrame(log_data)
ReturnDataFrame ==
    /\ pc = "parsing"
    /\ lineno = Len(file)
    /\ df' = DataFrame(log_data)
    /\ cols' = Keys(log_data)
    /\ pc' = "parsed"
    /\ UNCHANGED <<arg, err, fitted, file, lineno, log_data, out>>

NextParser == ReadLine \/ ReturnDataFrame

SpecParser == InitParser /\ [][NextParser]_vars

----------------------------------------------------------------------------
(* LogParser.extract_features and preprocess_for_ml on a table of records  *)

\* the number a run of digits spells
DigitValue(ch) == CHOOSE n \in 0..9 : Char("0123456789", n + 1) = ch

RECURSIVE Number(_)
Number(s) ==
    IF s = "" THEN 0
    ELSE 10 * Number(SubSeq(s, 1, Len(s) - 1)) + DigitValue(Char(s, Len(s)))

IsLeap(y) == (y % 4 = 0 /\ y % 100 # 0) \/ y % 400 = 0

DaysInMonth(y, m) ==
    IF m = 2 THEN (IF IsLeap(y) THEN 29 ELSE 28)
    ELSE IF m \in {4, 6, 9, 11} THEN 30 ELSE 31

\* days from 0001-01-01 (a Monday) to the first day of year y, and from the
\* first day of the year to the first day of month m
DaysBeforeYear(y) ==
    365 * (y - 1) + ((y - 1) \div 4) - ((y - 1) \div 100) + ((y - 1) \div 400)

RECURSIVE DaysBeforeMonth(_, _)
DaysBeforeMonth(y, m) ==
    IF m = 1 THEN 0 ELSE DaysBeforeMonth(y, m - 1) + DaysInMonth(y, m - 1)

\* variant: the fields of the timestamp are not range-checked
ParseTimestampUnchecked(s) ==
    IF Len(s) # 19 THEN NaT
    ELSE IF \E j \in 1..19 : j \notin {5, 8, 11, 14, 17} /\ Char(s, j) \notin Digit
    THEN NaT
    ELSE (DaysBeforeYear(Number(SubSeq(s, 1, 4)))
            + DaysBeforeMonth(Number(SubSeq(s, 1, 4)), 1 + ((Number(SubSeq(s, 6, 7)) + 11) % 12))
            + Number(SubSeq(s, 9, 10)) - 1) * (HoursPerDay * MinutesPerHour)
         + Number(SubSeq(s, 12, 13)) * MinutesPerHour + Number(SubSeq(s, 15, 16))

\* pd.to_datetime(s, errors='coerce') on a string of the form the generic
\* and windows grammars capture, 'YYYY-MM-DD HH:MM:SS': the minutes from
\* 0001-01-01 00:00 to it; NaT for a string that is no date and time, or one
\* outside the years a nanosecond timestamp holds whole
ParseTimestamp(s) ==
    IF Len(s) # 19 THEN NaT
    ELSE IF \/ Char(s, 5) # "-" \/ Char(s, 8) # "-" \/ Char(s, 11) # " "
            \/ Char(s, 14) # ":" \/ Char(s, 17) # ":"
            \/ \E j \in 1..19 : j \notin {5, 8, 11, 14, 17} /\ Char(s, j) \notin Digit
    THEN NaT
    ELSE LET year == Number(SubSeq(s, 1, 4))
             month == Number(SubSeq(s, 6, 7))
             day == Number(SubSeq(s, 9, 10))
             hour == Number(SubSeq(s, 12, 13))
             minute == Number(SubSeq(s, 15, 16))
             second == Number(SubSeq(s, 18, 19))
         IN  IF /\ year \in 1678..2261
                /\ month \in 1..12
                /\ day \in 1..DaysInMonth(year, month)
                /\ hour < HoursPerDay
                /\ minute < MinutesPerHour
                /\ second < 60
             THEN (DaysBeforeYear(year) + DaysBeforeMonth(year, month) + day - 1)
                      * (HoursPerDay * MinutesPerHour)
                  + hour * MinutesPerHour + minute
             ELSE NaT

\* extract_features: timestamp parsed, hour, day_of_week and
\* is_security_event added; a table without a timestamp or a message column
\* raises KeyError
ExtractFeatures(T, C) ==
    IF "timestamp" \notin C \/ "message" \notin C THEN Raise(T, C, "KeyError")
    ELSE Ok([i \in DOMAIN T |->
               LET ts == ParseTimestamp(T[i].timestamp)
               IN  SetCol(SetCol(SetCol(SetCol(T[i],
                      "timestamp", ts),
                      "hour", HourOf(ts)),
                      "day_of_week", DayOfWeek(ts)),
                      "is_security_event", IsSecurityEvent(T[i].message))],
            C \cup {"hour", "day_of_week", "is_security_event"})

\* the columns preprocess_for_ml selects, and those of them it one-hot encodes
SelectedCols ==
    {"timestamp", "log_type", "severity", "message", "source",
     "is_security_event", "hour", "day_of_week"}
EncodedCols == {"log_type", "severity"}

\* pd.get_dummies(columns=[c]): one indicator column per value of c that occurs
Dummies(T, c) == {c \o "_" \o T[i][c] : i \in DOMAIN T}

\* fillna('unknown'): the columns that can hold a null are those derived
\* from the timestamp
FillNa(c, v) ==
    IF c \in {"timestamp", "hour", "day_of_week"} /\ v = NaT THEN Placeholder ELSE v

\* preprocess_for_ml: the selected columns, log_type and severity replaced
\* by their indicator columns, nulls filled with 'unknown'
PreprocessForMl(T, C) ==
    IF ~(SelectedCols \subseteq C) THEN Raise(T, C, "KeyError")
    ELSE LET kept == SelectedCols \ EncodedCols
             made == Dummies(T, "log_type") \cup Dummies(T, "severity")
         IN  Ok([i \in DOMAIN T |->
                   [c \in kept \cup made \cup {"index"} |->
                       IF c \in kept \cup {"index"} THEN FillNa(c, T[i][c])
                       ELSE c \in {"log_type_" \o T[i].log_type,
                                   "severity_" \o T[i].severity}]],
                kept \cup made)

----------------------------------------------------------------------------
(* main.process_logs                                                       *)

MaxRecords == 10     \* records the file or the index holds

\* the timestamp strings of the records: dates and times, among them the
\* last day of a year and a leap day; and strings pd.to_datetime cannot
\* parse, among them a day and an hour that do not exist
RawTimestamps ==
    [valid |-> <<"2024-01-15 10:23:45", "2024-01-15 10:59:00", "2024-01-20 23:59:59",
                 "2023-12-31 00:00:00", "2024-02-29 12:00:00">>,
     mixed |-> <<"2024-01-15 10:23:45", "not a date", "2024-01-20 23:59:59",
                 "2023-02-29 12:00:00", "2024-01-15 24:00:00", "">>]

Cycle(seq, i) == seq[1 + ((i - 1) % Len(seq))]

\* record i of a file parse_log_file has read (sources are numbered)
FileRecord(i, stamps) ==
    [index |-> i,
     timestamp |-> Cycle(RawTimestamps[stamps], i),
     log_type |-> Cycle(<<"generic", "windows">>, i),
     severity |-> Cycle(<<"INFO", "ERROR", "WARN">>, i),
     message |-> Cycle(<<"session opened", "Failed password">>, i),
     source |-> Cycle(<<1, 2, 3, 1>>, i)]

\* hit i of a search: a document shipped by a log forwarder ('@timestamp',
\* message), or one that carries the fields of a parsed record; fetch_logs
\* adds its '_id'
Hit(i, stamps, docs) ==
    IF docs = "forwarded"
    THEN [index |-> i, _id |-> i, message |-> FileRecord(i, stamps).message] @@
         ("@timestamp" :> FileRecord(i, stamps).timestamp)
    ELSE SetCol(FileRecord(i, stamps), "_id", i)

\* pd.DataFrame(records): the rows, and the columns (none for no record)
Frame(rows) ==
    [df |-> rows,
     cols |-> IF rows = <<>> THEN {} ELSE (DOMAIN rows[1]) \ {"index"}]

\* the arguments of process_logs and what it finds around it: whether the
\* search cluster answers and the search succeeds, whether the file can be
\* read, whether the report can be saved, and the records to be had
Calls ==
    {a \in [use_elasticsearch : BOOLEAN, log_file_path : {"none", "missing", "given"},
            generate_report : BOOLEAN, write_results : BOOLEAN,
            client : {"up", "down"}, search : {"ok", "error"},
            docs : {"forwarded", "parsed"}, disk : {"ok", "full"},
            n : 0..MaxRecords, stamps : {"valid", "mixed"}] :
        /\ ~a.use_elasticsearch =>
              a.client = "up" /\ a.search = "ok" /\ a.docs = "parsed" /\ a.write_results
        /\ a.use_elasticsearch => a.log_file_path # "missing"
        /\ ~a.generate_report => a.disk = "ok"}

InitPipeline ==
    /\ arg \in Calls
    /\ df = <<>>
    /\ cols = {}
    /\ pc = "connect"
    /\ err = "none"
    /\ fitted = FALSE
    /\ ParserIdle

\* sys.exit(1)
Exit ==
    /\ pc' = "exit"
    /\ out' = [out EXCEPT !.exit = 1]
    /\ UNCHANGED <<arg, df, cols, err, fitted, file, lineno, log_data>>

Goto(next) ==
    /\ pc' = next
    /\ UNCHANGED <<arg, df, cols, err, fitted, file, lineno, log_data, out>>

\* if use_elasticsearch: es_connector = ElasticsearchConnector(); exit when
\* it has no client
connect ==
    /\ pc = "connect"
    /\ IF arg.use_elasticsearch /\ arg.client = "down" THEN Exit ELSE Goto("get_logs")

\* the table a source yields
Loaded(rows) ==
    /\ df' = Frame(rows).df
    /\ cols' = Frame(rows).cols
    /\ pc' = "check_empty"
    /\ UNCHANGED <<arg, err, fitted, file, lineno, log_data, out>>

\* logs from the index (fetch_logs: None when the search raises, else the
\* hits), else from the file (an exception of parse_log_file is caught),
\* else no source
get_logs ==
    /\ pc = "get_logs"
    /\ IF arg.use_elasticsearch
       THEN IF arg.search = "ok" /\ arg.n > 0
            THEN Loaded([i \in 1..arg.n |-> Hit(i, arg.stamps, arg.docs)])
            ELSE Exit
       ELSE IF arg.log_file_path = "given"
            THEN Loaded([i \in 1..arg.n |-> FileRecord(i, arg.stamps)])
            ELSE Exit

\* variant: an empty table is analysed like any other
CheckEmptyGoesOn == pc = "check_empty" /\ Goto("extract")

\* if logs_df is None or logs_df.empty: exit
check_empty ==
    /\ pc = "check_empty"
    /\ IF df = <<>> THEN Exit ELSE Goto("extract")

\* a call whose exception nothing catches ends process_logs
Call(r, next) ==
    /\ Step(r, next)
    /\ UNCHANGED <<arg, fitted, file, lineno, log_data, out>>

extract_features == pc = "extract" /\ Call(ExtractFeatures(df, cols), "preprocess")

preprocess_for_ml == pc = "preprocess" /\ Call(PreprocessForMl(df, cols), "time")

\* nlp_analyzer.analyze(logs_df): the table comes back with its rows, and
\* with the text-derived columns of the write-back schema
NlpAnalyze(T, C) ==
    Ok([i \in DOMAIN T |->
           SetCol(SetCol(T[i], "security_term_count", AsInt(T[i].is_security_event)),
                  "sentiment_score", 0)],
       C \cup {"security_term_count", "sentiment_score"})

nlp_analyze == pc = "done" /\ Call(NlpAnalyze(df, cols), "write_back")

\* if use_elasticsearch and es_connector and write_results:
\* write_analysis_results(logs_df), whose failure is only logged
write_back ==
    /\ pc = "write_back"
    /\ IF arg.use_elasticsearch /\ arg.write_results
       THEN \E done \in BOOLEAN : out' = [out EXCEPT !.written = done]
       ELSE out' = out
    /\ pc' = "report"
    /\ UNCHANGED <<arg, df, cols, err, fitted, file, lineno, log_data>>

\* if generate_report: generate_html_report(logs_df, nlp_summary) and save
\* it, exit when the file cannot be written; return logs_df, nlp_summary
report ==
    /\ pc = "report"
    /\ IF arg.generate_report /\ arg.disk = "full" THEN Exit
       ELSE /\ pc' = "returned"
            /\ out' = [out EXCEPT !.report = arg.generate_report, !.returned = TRUE]
            /\ UNCHANGED <<arg, df, cols, err, fitted, file, lineno, log_data>>

NextPipeline ==
    \/ connect
    \/ get_logs
    \/ check_empty
    \/ extract_features
    \/ preprocess_for_ml
    \/ detect_time_based_anomalies
    \/ detect_ml_anomalies
    \/ detect_frequency_anomalies
    \/ detect_source_anomalies
    \/ combine_anomaly_scores
    \/ nlp_analyze
    \/ write_back
    \/ report

SpecPipeline == InitPipeline /\ [][NextPipeline]_vars

----------------------------------------------------------------------------
(* Properties.  anomaly_score is in units of 0.5 throughout.               *)

Rows == DOMAIN df

\* 1 for a true flag, 0 for a false one or for a column the table lacks
Flag(i, c) == IF c \in cols THEN (IF df[i][c] THEN 1 ELSE 0) ELSE 0

\* C1: after combine_anomaly_scores every row's anomaly_score is
\* 1*time_anomaly + 2*ml_anomaly + 1.5*frequency_anomaly + 1*source_anomaly
\* + 0.5*is_security_event, a term counting only when its column exists.
C1_ScoreIsWeightedSum ==
    pc = "done" =>
        \A i \in Rows :
            df[i].anomaly_score =
                2 * Flag(i, "time_anomaly") + 4 * Flag(i, "ml_anomaly")
                + 3 * Flag(i, "frequency_anomaly") + 2 * Flag(i, "source_anomaly")
                + 1 * Flag(i, "is_security_event")

C1_Witness ==
    /\ pc = "done"
    /\ "source_anomaly" \notin cols
    /\ \E i \in Rows : df[i].anomaly_score = 8

\* C2: in every table combine_anomaly_scores returns, is_anomaly is true
\* exactly on the rows whose anomaly_score is at least 1.5.
C2_IsAnomalyIffThreshold ==
    pc = "done" => \A i \in Rows : df[i].is_anomaly <=> df[i].anomaly_score >= 3

C2_Witness ==
    /\ pc = "done"
    /\ \E i, j \in Rows :
          /\ df[i].anomaly_score = 3 /\ df[i].is_anomaly
          /\ df[j].anomaly_score = 2 /\ ~df[j].is_anomaly

\* the column each detector stage adds
StageColumn(stage) ==
    CASE stage = "time" -> "time_anomaly"
      [] stage = "ml" -> "ml_anomaly"
      [] stage = "frequency" -> "frequency_anomaly"
      [] stage = "source" -> "source_anomaly"

\* C3: called on a table of fewer than 10 rows, each of the four detectors
\* returns the same rows with its column false on every row and raises
\* nothing.
C3_BelowFloorAllFalse ==
    [][(pc \in {"time", "ml", "frequency", "source"} /\ Len(df) < 10) =>
          /\ err' = "none"
          /\ Len(df') = Len(df)
          /\ StageColumn(pc) \in cols'
          /\ \A i \in DOMAIN df' : df'[i][StageColumn(pc)] = FALSE]_vars

C3_Witness ==
    /\ pc = "combine"
    /\ Len(arg) = 9
    /\ Len(df) = 9
    /\ \A i \in Rows :
          /\ ~df[i].time_anomaly /\ ~df[i].ml_anomaly
          /\ ~df[i].frequency_anomaly /\ ~df[i].source_anomaly

\* the rows of df are the rows analyze was given, with their values
SameRows ==
    /\ Len(df) = Len(arg)
    /\ \A i \in Rows : \A c \in DOMAIN arg[i] : df[i][c] = arg[i][c]

DetectorFlagsFalse(i) ==
    /\ ~df[i].time_anomaly /\ ~df[i].ml_anomaly
    /\ ~df[i].frequency_anomaly /\ ~df[i].source_anomaly
    /\ ~df[i].is_anomaly

\* C4 as claimed: analyze on a table of 5 rows returns anomaly_score 0 on
\* every row, whatever is_security_event is.
C4_Claimed ==
    (Len(arg) = 5 /\ pc = "done") =>
        /\ SameRows
        /\ \A i \in Rows : DetectorFlagsFalse(i) /\ df[i].anomaly_score = 0

\* C4 as amended: analyze on a table of 5 rows raises nothing and returns
\* the same 5 rows with the four detector columns and is_anomaly false; the
\* anomaly_score of a row is 0.5 when its is_security_event is true and 0
\* otherwise.
C4_FiveRows ==
    Len(arg) = 5 =>
        /\ pc # "raised"
        /\ pc = "done" =>
              /\ SameRows
              /\ \A i \in Rows :
                    /\ DetectorFlagsFalse(i)
                    /\ df[i].anomaly_score = Flag(i, "is_security_event")

C4_Witness ==
    /\ Len(arg) = 5
    /\ pc = "done"
    /\ \E i, j \in Rows : df[i].anomaly_score = 1 /\ df[j].anomaly_score = 0

\* rows i and j differ in exactly one signal, false in i and true in j
OneMoreFlag(i, j) ==
    \E c \in cols \cap SignalCols :
        /\ ~df[i][c] /\ df[j][c]
        /\ \A b \in (cols \cap SignalCols) \ {c} : df[i][b] = df[j][b]

\* C7: turning one of the five signals of a row from false to true, the
\* others staying the same, never lowers the anomaly_score and never turns
\* is_anomaly from true to false.
C7_FusionMonotone ==
    pc = "done" =>
        \A i, j \in Rows :
            OneMoreFlag(i, j) =>
                /\ df[i].anomaly_score <= df[j].anomaly_score
                /\ df[i].is_anomaly => df[j].is_anomaly

C7_Witness ==
    /\ pc = "done"
    /\ \E i, j \in Rows :
          /\ OneMoreFlag(i, j)
          /\ df[i].anomaly_score < df[j].anomaly_score
          /\ ~df[i].is_anomaly /\ df[j].is_anomaly

AllSignalsFalse ==
    /\ SignalCols \subseteq cols
    /\ \A i \in Rows : \A c \in SignalCols : ~df[i][c]

\* C8: on a table whose five signal columns are false on every row,
\* combine_anomaly_scores yields anomaly_score 0 and is_anomaly false on
\* every row.
C8_AllFalseScoresZero ==
    (pc = "done" /\ AllSignalsFalse) =>
        \A i \in Rows : df[i].anomaly_score = 0 /\ ~df[i].is_anomaly

C8_Witness ==
    /\ pc = "done"
    /\ AllSignalsFalse
    /\ Len(df) = 2
    /\ \A i \in Rows : df[i].anomaly_score = 0 /\ ~df[i].is_anomaly

\* rows of arg with source v
SourceCount(v) == Cardinality({i \in DOMAIN arg : arg[i].source = v})

Sources == {arg[i].source : i \in DOMAIN arg}

\* arg has 200 rows, 180 of them of source v, the other 20 spread evenly
\* over the other sources
DominantScenario(v) ==
    /\ Len(arg) = 200
    /\ SourceCount(v) = 180
    /\ \A a, b \in Sources \ {v} : SourceCount(a) = SourceCount(b)

\* the same with the 20 rows dealt out in turn, so that two of the other
\* sources differ by at most one row
NearDominantScenario(v) ==
    /\ Len(arg) = 200
    /\ SourceCount(v) = 180
    /\ \A a, b \in Sources \ {v} : SourceCount(a) <= SourceCount(b) + 1

Returned(stage) == pc = stage /\ err = "none"

\* C9 as claimed: whatever the number of other sources, every row of the
\* dominant source is flagged.
C9_Claimed ==
    Returned("combine") =>
        \A v \in Sources :
            DominantScenario(v) =>
                \A i \in Rows : df[i].source = v => df[i].source_anomaly

\* C9 as amended: in a table of 200 rows with 180 rows of one source and
\* the other 20 spread uniformly over the other sources,
\* detect_source_anomalies flags every row of the dominant source when there
\* are at least 8 other sources, and flags no row at all when there are
\* fewer.
C9_DominantSourceFlagged ==
    Returned("combine") =>
        \A v \in Sources :
            NearDominantScenario(v) =>
                IF Cardinality(Sources) >= 9
                THEN \A i \in Rows : df[i].source_anomaly <=> df[i].source = v
                ELSE \A i \in Rows : ~df[i].source_anomaly

C9_Witness ==
    /\ Returned("combine")
    /\ \E v \in Sources :
          /\ DominantScenario(v)
          /\ Cardinality(Sources) = 11
          /\ \A i \in Rows : df[i].source_anomaly <=> df[i].source = v

\* the hour values that occur in arg (a null hour is no value), the rows of
\* each, the rows with an hour, and the pairs of rows with the same hour:
\* the number of groups, their sizes, the sum of the sizes and the sum of
\* their squares
HoursSeen == {arg[i].hour : i \in DOMAIN arg} \ {NaT}
HourCount(h) == Cardinality({i \in DOMAIN arg : arg[i].hour = h})
RowsWithHour == Cardinality({i \in DOMAIN arg : arg[i].hour # NaT})
SameHourPairs ==
    Cardinality({q \in (DOMAIN arg) \X (DOMAIN arg) :
                    arg[q[1]].hour # NaT /\ arg[q[1]].hour = arg[q[2]].hour})

\* c > mean + 2*std over n counts with sum S and sum of squares Q, std
\* being the sample standard deviation
AboveTwoSigma(c, n, S, Q) ==
    /\ n >= 2
    /\ n * c > S
    /\ (n * c - S) * (n * c - S) * (n - 1) > 4 * n * (n * Q - S * S)

\* C10 as claimed: the mean and the deviation are those of the counts of
\* all 24 hours of the day, an hour without rows counting 0.
C10_Claimed ==
    (Returned("ml") /\ Len(arg) >= 10) =>
        \A i \in Rows :
            df[i].time_anomaly <=>
                /\ df[i].hour \in 0..23
                /\ AboveTwoSigma(HourCount(df[i].hour), 24, RowsWithHour, SameHourPairs)

\* C10 as amended: on a table of at least 10 rows detect_time_based_anomalies
\* flags exactly the rows whose hour has a row count strictly above
\* mean + 2*stddev, the mean and the sample standard deviation being taken
\* over the counts of the hour values that occur in the table: an hour
\* without rows is not counted, and with a single hour value no row is
\* flagged.
C10_TimeAnomalyOverSeenHours ==
    (Returned("ml") /\ Len(arg) >= 10) =>
        \A i \in Rows :
            df[i].time_anomaly <=>
                /\ df[i].hour # NaT
                /\ AboveTwoSigma(HourCount(df[i].hour), Cardinality(HoursSeen),
                                 RowsWithHour, SameHourPairs)

C10_Witness ==
    /\ Returned("ml")
    /\ Len(arg) >= 10
    /\ \E i, j \in Rows : df[i].time_anomaly /\ ~df[j].time_anomaly /\ df[j].hour # NaT

\* What "the pattern matches" means, stated on positions: EndsAt(items, line,
\* k) is the set of positions at which the first k items can end when they
\* are matched from the start of the line.
RECURSIVE EndsAt(_, _, _)
EndsAt(items, line, k) ==
    IF k = 0 THEN {0}
    ELSE LET it == items[k]
             before == EndsAt(items, line, k - 1)
         IN  {q \in 0..Len(line) :
                \E p \in before :
                    /\ p + it.lo <= q
                    /\ it.hi < 0 \/ q <= p + it.hi
                    /\ \A j \in (p + 1)..q : Char(line, j) \in it.cls}

\* the pattern matches some prefix of the line / the whole line
MatchesAtStart(t, line) == EndsAt(patterns[t].items, line, Len(patterns[t].items)) # {}
MatchesWhole(t, line) == Len(line) \in EndsAt(patterns[t].items, line, Len(patterns[t].items))

\* the line without its leading and trailing whitespace
Trimmed(line) ==
    LET inked == {j \in 1..Len(line) : Char(line, j) \notin {" ", "\t"}}
    IN  IF inked = {} THEN ""
        ELSE SubSeq(line, CHOOSE a \in inked : \A b \in inked : a <= b,
                          CHOOSE a \in inked : \A b \in inked : b <= a)

\* the earliest of generic, apache, windows, ssh to match a prefix of the line
FirstAtStart(line) ==
    IF MatchesAtStart("generic", line) THEN "generic"
    ELSE IF MatchesAtStart("apache", line) THEN "apache"
    ELSE IF MatchesAtStart("windows", line) THEN "windows"
    ELSE IF MatchesAtStart("ssh", line) THEN "ssh"
    ELSE "unknown"

\* the earliest of them to match the whole line
FirstWhole(line) ==
    IF MatchesWhole("generic", line) THEN "generic"
    ELSE IF MatchesWhole("apache", line) THEN "apache"
    ELSE IF MatchesWhole("windows", line) THEN "windows"
    ELSE IF MatchesWhole("ssh", line) THEN "ssh"
    ELSE "unknown"

\* for each line the file can hold: the trimmed line, the first grammar to
\* match a prefix of it, the first to match all of it, and the type
\* detect_log_type returns for it
Expected ==
    [raw \in SampleLines |->
        [trimmed |-> Trimmed(raw),
         atStart |-> FirstAtStart(Trimmed(raw)),
         whole |-> FirstWhole(Trimmed(raw)),
         detected |-> detect_log_type(Trimmed(raw))]]

\* the record at position i is the one line i of the file calls for
RecordOfLine(rec, i) ==
    LET t == Expected[file[i]].atStart
    IN  /\ rec.log_type = t
        /\ t = "unknown" =>
              /\ rec.severity = "INFO"
              /\ rec.source = "unknown"
              /\ rec.message = Expected[file[i]].trimmed

\* C5: parse_log_file produces exactly one record for every line of the
\* file, in input order: a line a grammar matches yields a record of that
\* type, any other line (a blank one too) a record of type 'unknown' with
\* severity 'INFO', source 'unknown' and the trimmed line as message; the
\* table returned has as many rows as the file has lines.
C5_OneRecordPerLine ==
    /\ Len(log_data) = lineno
    /\ lineno > 0 => RecordOfLine(log_data[lineno], lineno)
    /\ pc = "parsed" =>
          /\ Len(df) = Len(file)
          /\ \A i \in DOMAIN df :
                /\ df[i].index = i
                /\ \A c \in DOMAIN log_data[i] : df[i][c] = log_data[i][c]

C5_Witness ==
    /\ pc = "parsed"
    /\ Len(df) = 2
    /\ df[1].log_type = "unknown" /\ df[1].message = ""
    /\ df[2].log_type = "apache"

\* C6 as claimed: the type is that of the first grammar that matches the
\* whole trimmed line.
C6_Claimed ==
    lineno > 0 => log_data[lineno].log_type = Expected[file[lineno]].whole

\* C6 as amended: for every line detect_log_type returns the first of
\* generic, apache, windows, ssh whose pattern matches the trimmed line from
\* its start (re.match: the pattern need not reach the end of the line, so
\* text after an apache entry's size field is ignored), and 'unknown' when
\* none does; the same line always gets the same type.
C6_FirstMatchAtStart ==
    /\ lineno > 0 =>
          /\ Expected[file[lineno]].detected = Expected[file[lineno]].atStart
          /\ log_data[lineno].log_type = Expected[file[lineno]].detected
    /\ \A i, j \in 1..lineno :
          file[i] = file[j] => log_data[i].log_type = log_data[j].log_type

C6_Witness ==
    /\ lineno = 2
    /\ log_data[1].log_type = "generic" /\ MatchesAtStart("apache", Trimmed(file[1]))
    /\ log_data[2].log_type = "apache" /\ ~MatchesWhole("apache", Trimmed(file[2]))

----------------------------------------------------------------------------
(* detect_frequency_anomalies                                              *)

\* the rows of df that have a timestamp, the 5-minute window of each, the
\* rows of its window, the windows that occur and the pairs of rows in the
\* same window (the sum of the squares of the window counts)
Stamped == {i \in DOMAIN df : df[i].timestamp \notin {NaT, Placeholder}}
WindowOf(i) == df[i].timestamp - (df[i].timestamp % 5)
WindowCount(i) == Cardinality({j \in Stamped : WindowOf(j) = WindowOf(i)})
WindowsSeen == {WindowOf(i) : i \in Stamped}
SameWindowPairs ==
    Cardinality({q \in Stamped \X Stamped : WindowOf(q[1]) = WindowOf(q[2])})

\* c > mean + 3*std over n counts with sum S and sum of squares Q
AboveThreeSigma(c, n, S, Q) ==
    /\ n >= 2
    /\ n * c > S
    /\ (n * c - S) * (n * c - S) * (n - 1) > 9 * n * (n * Q - S * S)

----------------------------------------------------------------------------
(* The fields of an ssh record                                             *)

\* word occurs in s from position p on
OccursAt(s, word, p) ==
    /\ p + Len(word) - 1 <= Len(s)
    /\ SubSeq(s, p, p + Len(word) - 1) = word

HasSubstring(s, word) == \E p \in 1..Len(s) : OccursAt(s, word, p)

\* the positions at which a token follows "user ", and the end of the token
\* that starts at position b
UserStarts(s) ==
    {p \in 1..Len(s) :
        /\ OccursAt(s, "user ", p)
        /\ p + 5 <= Len(s)
        /\ Char(s, p + 5) \notin {" ", "\t"}}

TokenEnd(s, b) ==
    CHOOSE e \in b..Len(s) :
        /\ \A j \in b..e : Char(s, j) \notin {" ", "\t"}
        /\ e = Len(s) \/ Char(s, e + 1) \in {" ", "\t"}

\* x is four runs of digits separated by three dots
IsDotted(x) ==
    LET dots == {j \in 1..Len(x) : Char(x, j) = "."}
    IN  /\ Cardinality(dots) = 3
        /\ \A j \in 1..Len(x) : j \notin dots => Char(x, j) \in Digit
        /\ 1 \notin dots /\ Len(x) \notin dots
        /\ \A j \in dots : j + 1 \notin dots

\* the dotted addresses that follow "from ": where "from " starts and where
\* the address ends (its last run of digits taken whole)
AddressSpans(s) ==
    {q \in (1..Len(s)) \X (1..Len(s)) :
        /\ OccursAt(s, "from ", q[1])
        /\ q[1] + 5 <= q[2]
        /\ IsDotted(SubSeq(s, q[1] + 5, q[2]))
        /\ q[2] = Len(s) \/ Char(s, q[2] + 1) \notin Digit}

LeastOf(S) == CHOOSE a \in S : \A b \in S : a <= b

ExpectedUsername(s) ==
    IF UserStarts(s) = {} THEN "unknown"
    ELSE LET p == LeastOf(UserStarts(s)) IN SubSeq(s, p + 5, TokenEnd(s, p + 5))

ExpectedAddress(s) ==
    IF AddressSpans(s) = {} THEN "unknown"
    ELSE LET p == LeastOf({q[1] : q \in AddressSpans(s)})
             q == CHOOSE r \in AddressSpans(s) : r[1] = p
         IN  SubSeq(s, p + 5, q[2])

\* C12: in every record made from an ssh line, failed_attempt is true
\* exactly when the message contains 'Failed password' or 'Invalid user'
\* (case-sensitive), severity is 'WARNING' when it is and 'INFO' otherwise,
\* username is the token after 'user ' or 'unknown', and source the dotted
\* address after 'from ' or 'unknown'.
C12_SshFields ==
    (lineno > 0 /\ log_data[lineno].log_type = "ssh") =>
        LET rec == log_data[lineno]
            failed == \/ HasSubstring(rec.message, "Failed password")
                      \/ HasSubstring(rec.message, "Invalid user")
        IN  /\ rec.failed_attempt = failed
            /\ rec.severity = IF failed THEN "WARNING" ELSE "INFO"
            /\ rec.username = ExpectedUsername(rec.message)
            /\ rec.source = ExpectedAddress(rec.message)

C12_Witness ==
    /\ lineno = 2
    /\ log_data[1].log_type = "ssh" /\ log_data[1].failed_attempt
    /\ log_data[1].username = "bob" /\ log_data[1].source = "unknown"
    /\ log_data[2].log_type = "ssh" /\ ~log_data[2].failed_attempt
    /\ log_data[2].username = "eve" /\ log_data[2].source = "10.1.2.33"

----------------------------------------------------------------------------
(* analyze: the order of the stages                                        *)

\* the columns the stages add, and those of them the table has
StageCols ==
    {"time_anomaly", "ml_anomaly", "frequency_anomaly", "source_anomaly",
     "anomaly_score", "is_anomaly"}
Produced == cols \cap StageCols

\* what has been produced when analyze is about to run a stage, or is done
ProducedBefore(stage) ==
    CASE stage = "time" -> {}
      [] stage = "ml" -> {"time_anomaly"}
      [] stage = "frequency" -> {"time_anomaly", "ml_anomaly"}
      [] stage = "source" -> {"time_anomaly", "ml_anomaly", "frequency_anomaly"}
      [] stage = "combine" ->
            {"time_anomaly", "ml_anomaly", "frequency_anomaly", "source_anomaly"}
      [] stage = "done" -> StageCols

\* C13: analyze runs the time, ML, frequency and source detectors and then
\* fusion, in this order and each once, each on the table the one before
\* returned: whenever a stage is about to run the table holds the columns
\* of the stages before it and of no other, fusion starts with the four
\* detector columns, and a call left on an exception has not run fusion.
C13_StagesInOrder ==
    /\ pc # "raised" => Produced = ProducedBefore(pc)
    /\ pc = "raised" => Produced \cap {"anomaly_score", "is_anomaly"} = {}

C13_Witness ==
    /\ pc = "done"
    /\ Len(arg) >= 10
    /\ \E i \in Rows : df[i].time_anomaly /\ df[i].is_anomaly
    /\ \E i \in Rows : ~df[i].time_anomaly

----------------------------------------------------------------------------
(* The fitted state of the detector                                        *)

----------------------------------------------------------------------------
(* analyze on a table that lacks a column                                  *)

\* the columns of FeatureCols0 that arg lacks
Lacking == IF arg = <<>> THEN {} ELSE FeatureCols0 \ DOMAIN arg[1]

\* the detector column that depends on column c
DependentColumn(c) ==
    CASE c = "source" -> "source_anomaly"
      [] c = "timestamp" -> "frequency_anomaly"
      [] c = "hour" -> "time_anomaly"

\* C15 as claimed: on a table of at least 10 rows that lacks source,
\* timestamp or hour, analyze raises nothing and the column of the
\* detector that depends on the lacking column is false on every row.
C15_Claimed ==
    (Len(arg) >= 10 /\ Lacking \cap {"source", "timestamp", "hour"} # {}) =>
        /\ err = "none"
        /\ pc = "done" =>
              \A c \in Lacking \cap {"source", "timestamp", "hour"} :
                  \A i \in Rows : ~df[i][DependentColumn(c)]

----------------------------------------------------------------------------
(* process_logs                                                            *)

\* C16 as claimed: a run that takes its records from the index, each with a
\* message and an '@timestamp' key and no 'timestamp' key, does not fail on
\* a missing column.
C16_Claimed ==
    (arg.use_elasticsearch /\ arg.docs = "forwarded") => err = "none"

ReportColumns == {"timestamp", "source", "severity", "message", "anomaly_score"}

\* C17 as claimed: the table handed to generate_html_report has the columns
\* timestamp, source, severity, message and anomaly_score.
C17_Claimed ==
    (pc = "report" /\ arg.generate_report) => ReportColumns \subseteq cols

\* what the calendar says of the timestamp strings the records carry: the
\* hour and the weekday (Monday 0) of those that are a date and a time
KnownClock ==
    ("2024-01-15 10:23:45" :> [hour |-> 10, weekday |-> 0]) @@
    ("2024-01-15 10:59:00" :> [hour |-> 10, weekday |-> 0]) @@
    ("2024-01-20 23:59:59" :> [hour |-> 23, weekday |-> 5]) @@
    ("2023-12-31 00:00:00" :> [hour |-> 0, weekday |-> 6]) @@
    ("2024-02-29 12:00:00" :> [hour |-> 12, weekday |-> 3])

\* C18: extract_features raises nothing on a timestamp string that cannot
\* be parsed and makes the timestamp null; hour and day_of_week are null
\* exactly on the rows whose timestamp is null, and elsewhere the hour
\* (0..23) and the weekday (0..6) of the timestamp; the rows and their order
\* are unchanged.
C18_ExtractFeaturesCoerces ==
    [][(pc = "extract" /\ {"timestamp", "message"} \subseteq cols) =>
          /\ err' = "none"
          /\ Len(df') = Len(df)
          /\ \A i \in DOMAIN df :
                /\ df'[i].index = df[i].index
                /\ df'[i].message = df[i].message
                /\ IF df[i].timestamp \in DOMAIN KnownClock
                   THEN /\ df'[i].timestamp # NaT
                        /\ df'[i].hour = KnownClock[df[i].timestamp].hour
                        /\ df'[i].day_of_week = KnownClock[df[i].timestamp].weekday
                        /\ df'[i].hour \in 0..23 /\ df'[i].day_of_week \in 0..6
                   ELSE /\ df'[i].timestamp = NaT
                        /\ df'[i].hour = NaT
                        /\ df'[i].day_of_week = NaT]_vars

C18_Witness ==
    /\ pc = "preprocess"
    /\ \E i, j, k \in Rows :
          /\ i < j /\ j < k
          /\ df[i].timestamp = NaT /\ df[i].hour = NaT
          /\ df[j].hour = 23 /\ df[j].day_of_week = 5
          /\ arg.stamps = "mixed" /\ df[k].timestamp = NaT

\* the conditions under which process_logs cannot go on: no source, the
\* index selected and unreachable or yielding no logs, the file unreadable,
\* the table empty
Fatal(a) ==
    IF a.use_elasticsearch
    THEN a.client = "down" \/ a.search = "error" \/ a.n = 0
    ELSE a.log_file_path \in {"none", "missing"} \/ a.n = 0

\* C19: under a fatal condition process_logs exits with status 1 before
\* feature extraction, detection, write-back and report: it never gets past
\* the check of the table, nothing is extracted, written back, reported or
\* returned, and it does not stop short of the exit.
C19_FatalExitsEarly ==
    Fatal(arg) =>
        /\ pc \in {"connect", "get_logs", "check_empty", "exit"}
        /\ cols \cap {"hour", "is_security_event", "anomaly_score"} = {}
        /\ ~out.written /\ ~out.report /\ ~out.returned
        /\ out.exit = (IF pc = "exit" THEN 1 ELSE 0)
        /\ pc # "exit" => ENABLED NextPipeline

C19_Witness ==
    /\ pc = "exit"
    /\ out.exit = 1
    /\ ~arg.use_elasticsearch /\ arg.log_file_path = "given" /\ arg.n = 0

----------------------------------------------------------------------------
(* Rows without a timestamp in the time-based detector                     *)

\* the rows of arg whose timestamp was parsed, the hours they fall in, the
\* rows of one such hour and the pairs of such rows in the same hour
Parsed == {i \in DOMAIN arg : arg[i].hour \notin {NaT, Placeholder}}
ParsedHours == {arg[i].hour : i \in Parsed}
ParsedHourCount(h) == Cardinality({i \in Parsed : arg[i].hour = h})
ParsedSameHourPairs ==
    Cardinality({q \in Parsed \X Parsed : arg[q[1]].hour = arg[q[2]].hour})

\* C20 as claimed: after extract_features and preprocess_for_ml, on a table
\* of at least 10 rows, the rows whose timestamp could not be parsed are in
\* no hour bucket: time_anomaly is what the counts of the parsed rows alone
\* give, and is false on the rows without a timestamp.
C20_Claimed ==
    (Returned("ml") /\ Len(arg) >= 10) =>
        \A i \in Rows :
            df[i].time_anomaly <=>
                /\ i \in Parsed
                /\ AboveTwoSigma(ParsedHourCount(df[i].hour), Cardinality(ParsedHours),
                                 Cardinality(Parsed), ParsedSameHourPairs)

----------------------------------------------------------------------------
(* What analyze leaves alone                                               *)

DerivedCols == {"hour", "day_of_week", "is_security_event"}

\* the row analyze was given of which row j of df is the annotated copy
Given(j) == arg[df[j].index]

\* C21: at every point of analyze, each row of the table carries every
\* column it was given, and its hour, day_of_week and is_security_event have
\* the values it was given: the stages and fusion only add columns.
C21_DerivedColumnsKept ==
    \A j \in Rows :
        /\ DOMAIN Given(j) \subseteq DOMAIN df[j]
        /\ \A c \in DerivedCols \cap DOMAIN Given(j) : df[j][c] = Given(j)[c]

C21_Witness ==
    /\ Returned("done")
    /\ Len(df) >= MIN_ROWS
    /\ DerivedCols \subseteq cols
    /\ \E j \in Rows : df[j].index # j
    /\ \E j \in Rows : df[j].is_security_event /\ df[j].is_anomaly

\* C22 as claimed: analyze returns one row per row it was given, in the
\* order given, so that the number of rows of the annotated table is the
\* number of records parsed.
C22_Claimed ==
    Returned("done") =>
        /\ Len(df) = Len(arg)
        /\ \A j \in Rows : df[j].index = j

----------------------------------------------------------------------------
(* Which signals make a row an anomaly                                     *)

\* how many of the three weaker signals row i carries
WeakSignals(i) ==
    Flag(i, "time_anomaly") + Flag(i, "source_anomaly") + Flag(i, "is_security_event")

\* C23: with all five signal columns present, combine_anomaly_scores marks
\* a row as an anomaly exactly when ml_anomaly is true, or frequency_anomaly
\* is true, or at least two of time_anomaly, source_anomaly and
\* is_security_event are true.
C23_AnomalyBySignals ==
    (pc = "done" /\ SignalCols \subseteq cols) =>
        \A i \in Rows :
            df[i].is_anomaly <=>
                \/ df[i].ml_anomaly
                \/ df[i].frequency_anomaly
                \/ WeakSignals(i) >= 2

C23_Witness ==
    /\ pc = "done"
    /\ SignalCols \subseteq cols
    /\ \E i, j \in Rows :
          /\ ~df[i].ml_anomaly /\ ~df[i].frequency_anomaly
          /\ WeakSignals(i) = 1 /\ df[i].is_security_event /\ ~df[i].is_anomaly
          /\ ~df[j].ml_anomaly /\ ~df[j].frequency_anomaly
          /\ WeakSignals(j) = 2 /\ df[j].is_security_event /\ df[j].is_anomaly

----------------------------------------------------------------------------
(* How many groups a threshold detector needs                              *)

\* the values of column col that occur, nulls left out
Seen(col) == {df[i][col] : i \in Rows} \ {NaT}

\* the 5-minute windows that occur
SeenWindows == {WindowOf(i) : i \in Stamped}

\* the detector whose column is `flag` has run, has flagged nothing if fewer
\* than `least` groups occur, and has not flagged every row
Quiet(flag, groups, least) ==
    (flag \in cols /\ err = "none") =>
        /\ Cardinality(groups) < least => \A i \in Rows : ~df[i][flag]
        /\ Rows # {} => \E i \in Rows : ~df[i][flag]

\* C24: detect_time_based_anomalies flags no row when fewer than 6 distinct
\* hours occur, detect_frequency_anomalies none when fewer than 11 distinct
\* windows occur, detect_source_anomalies none when fewer than 9 distinct
\* sources occur; with a single group none is flagged, and no detector flags
\* every row of a table.
C24_FewGroupsNoFlags ==
    /\ Quiet("time_anomaly", Seen("hour"), 6)
    /\ Quiet("frequency_anomaly", SeenWindows, 11)
    /\ Quiet("source_anomaly", Seen("source"), 9)

C24_Witness ==
    /\ Returned("combine")
    /\ Len(df) >= MIN_ROWS
    /\ Cardinality(Seen("source")) = 8
    /\ \E i, j \in Rows :
          /\ Cardinality({r \in Rows : df[r].source = df[i].source}) = MaxGroupSize
          /\ Cardinality({r \in Rows : df[r].source = df[j].source}) = 1
    /\ "frequency_anomaly" \in cols
    /\ \A i \in Rows : ~df[i].source_anomaly

----------------------------------------------------------------------------
(* Flags within a group                                                    *)

\* rows i and j carry the same value of column col
SameValue(i, j, col) == col \in cols /\ df[i][col] = df[j][col]

\* rows i and j have timestamps in the same 5-minute window
SameWindow(i, j) ==
    /\ "timestamp" \in cols
    /\ i \in Stamped /\ j \in Stamped
    /\ WindowOf(i) = WindowOf(j)

\* C25: in the table analyze returns, two rows with the same hour have the
\* same time_anomaly, two rows with the same source the same source_anomaly,
\* and two rows whose timestamps fall in the same 5-minute window the same
\* frequency_anomaly.
C25_FlagsUniformInGroup ==
    Returned("done") =>
        \A i, j \in Rows :
            /\ SameValue(i, j, "hour") => (df[i].time_anomaly <=> df[j].time_anomaly)
            /\ SameValue(i, j, "source") => (df[i].source_anomaly <=> df[j].source_anomaly)
            /\ SameWindow(i, j) => (df[i].frequency_anomaly <=> df[j].frequency_anomaly)

C25_Witness ==
    /\ Returned("done")
    /\ \E i, j \in Rows :
          i # j /\ SameValue(i, j, "hour") /\ df[i].time_anomaly /\ df[j].time_anomaly
    /\ \E i, j \in Rows :
          i # j /\ SameWindow(i, j) /\ df[i].frequency_anomaly /\ df[j].frequency_anomaly
    /\ \E i, j \in Rows :
          i # j /\ SameValue(i, j, "source") /\ ~df[i].source_anomaly
    /\ \E i \in Rows : ~df[i].time_anomaly /\ ~df[i].frequency_anomaly

====
